---- MODULE Spec2Model ----
(***************************************************************************)
(* Scroll Canvas Bot: the run orchestrator (main.py, run_accounts), the    *)
(* reward workflow (main.py, register_and_claim / get_eligible_badges) and *)
(* the gas oracle (utils.py, suggest_gas_fees / suggest_gas_fees_metamask).*)
(*                                                                         *)
(* Python lists are 0-based, TLA+ sequences 1-based: `pos` and             *)
(* `last_bot_index` hold the Python index plus one.                        *)
(***************************************************************************)
EXTENDS Integers, Sequences, FiniteSets, TLC

\* ------------------------------------------------------------------------
\* Bounds of the model
\* ------------------------------------------------------------------------
MaxLen == 2           \* longest batch handed to run_accounts
MaxRetries == 2       \* largest "Max Retries" cell
MaxRounds == 2        \* cap on the rounds of the `while True` loop per account
MaxCatalog == 2       \* most badges in the fetched scroll.badgelist.json
MaxInvocations == 2   \* register_and_claim calls in one behaviour
MaxRawEstimate == 120 \* largest raw gas estimate of the node tried
MaxRows == 7          \* most rows of the "accounts" sheet

\* ------------------------------------------------------------------------
\* Values
\* ------------------------------------------------------------------------
\* the private keys that may appear in accounts.xlsx; run_accounts only
\* compares their hashes for equality, so two distinct keys show every case
PrivateKeys == {1, 2}

\* BotAccount.hash: keccak of the private key text (injective on the keys)
hash(private_key) == <<"keccak", private_key>>

NoHash == <<"keccak", 0>>

\* enums.TransactionStatus
TransactionStatus == {"SUCCESS", "INSUFFICIENT_BALANCE", "FAILED"}

\* what a call of register_and_claim can do to its caller: return a member
\* of TransactionStatus, or raise (no try/except at the call site)
Outcomes == TransactionStatus \cup {"RAISED"}

Batches == UNION {[1..n -> PrivateKeys] : n \in 0..MaxLen}

NoFile == [exists |-> FALSE, order |-> <<>>, account_hash |-> NoHash]

NoAccount == [private_key |-> 0, auto_skip |-> FALSE, max_retries |-> 0,
              proxy |-> FALSE]

Max(a, b) == IF a >= b THEN a ELSE b

ToSet(s) == {s[k] : k \in 1..Len(s)}

\* ------------------------------------------------------------------------
\* Python list helpers used by run_accounts
\* ------------------------------------------------------------------------
RECURSIVE insort(_, _)
insort(x, s) ==
    IF s = <<>> THEN <<x>>
    ELSE IF x[2] <= Head(s)[2] THEN <<x>> \o s
    ELSE <<Head(s)>> \o insort(x, Tail(s))

sorted_Unsorted(s) == s

\* sorted(list) on hash strings
RECURSIVE sorted(_)
sorted(s) == IF s = <<>> THEN <<>> ELSE insort(Head(s), sorted(Tail(s)))

\* list.index(x): position of the first occurrence (1-based); 0 stands for
\* the ValueError raised when x is not in the list
index(s, x) ==
    IF x \in ToSet(s)
    THEN CHOOSE k \in 1..Len(s) : s[k] = x /\ \A j \in 1..(k - 1) : s[j] # x
    ELSE 0

CheckpointMatches_SameLength(order, hashes) == Len(order) = Len(hashes)

\* the test of line 534
CheckpointMatches(order, hashes) == sorted(order) = sorted(hashes)

hashes_of(accounts) == [k \in 1..Len(accounts) |-> hash(accounts[k])]

Checkpoint_LastAccount(hashes, accounts) ==
    [exists |-> TRUE, order |-> hashes,
     account_hash |-> hash(accounts[Len(accounts)])]

\* json.dump({'order': accounts_hashes, 'account_hash': bot_accounts[0].hash})
Checkpoint(hashes, accounts) ==
    [exists |-> TRUE, order |-> hashes, account_hash |-> hash(accounts[1])]

ResumedAccounts_BatchOrder(accounts, hashes, order, last_index, last_account) ==
    <<last_account>> \o SubSeq(accounts, last_index + 1, Len(accounts))

\* the list run_accounts iterates after the operator accepted the resume
\* (lines 546-549)
ResumedAccounts(accounts, hashes, order, last_index, last_account) ==
    LET reordered == [k \in 1..Len(order) |-> accounts[index(hashes, order[k])]]
    IN  <<last_account>> \o SubSeq(reordered, last_index + 1, Len(reordered))

\* ------------------------------------------------------------------------
\* State
\* ------------------------------------------------------------------------
VARIABLES
    pc,               \* position of the process; "idle": no process running
    ended,            \* how the last process ended
    file,             \* last_state.json
    last_state,       \* json.load(file) of the running process
    batch,            \* the argument of run_accounts (private keys of the rows)
    accounts_hashes,  \* local accounts_hashes
    bot_accounts,     \* local bot_accounts (the list the for loop iterates)
    last_bot_index,   \* order.index(last_state['account_hash']) + 1
    last_bot_account, \* the account found by next(filter(...))
    pos,              \* rows of bot_accounts the for loop has taken
    bot_account,      \* the row bound by the for loop
    i,                \* loop variable of `for i in range(...)`
    success,          \* local success
    result,           \* local result
    prompted,         \* the resume prompt of line 543 was issued in this run
    continue_result,  \* local continue_result: "y", "n" (anything else), or
                      \* "none" before the prompt
    rounds,           \* rounds of the while loop started for bot_account
    calls,            \* register_and_claim calls made in the current round
    sleeps,           \* random_sleep calls of line 629 in the current round
    processed         \* hashes of the rows the for loop has taken, in order

\* the memory of the running process
locals == <<last_state, batch, accounts_hashes, bot_accounts, last_bot_index,
            last_bot_account, pos, bot_account, i, success, result, prompted, continue_result,
            rounds, calls, sleeps, processed>>

runVars == <<pc, ended, file, locals>>

VARIABLES
    fpc,              \* position inside register_and_claim; "idle" before the
                      \* first call, "returned" / "raised" after a call
    inv,              \* number of calls of register_and_claim so far
    username,         \* argument username: "random" (empty or 'random') or "given"
    invite_code,      \* argument invite_code is not None
    claim_badges,     \* argument claim_badges
    profile,          \* what isProfileMinted answered in this call
    tx_kind,          \* the transaction being prepared: "mint", "claim", "attest"
    nbadges,          \* len(badgelist) inside get_eligible_badges
    bidx,             \* position of `for badge in badgelist`
    evals,            \* how the evaluation of each badge taken so far ended
    outages,          \* badges whose check endpoint could not be reached
    eligible_badges,  \* mintable_badges / eligible_badges: badgelist positions
    cidx,             \* position of `for badge in eligible_badges`
    mint_info,        \* badge.mint_info of each badge object: the call that
                      \* fetched the payload, 0 for None
    gas_price,        \* local gas_price: the quote of the oracle call made
                      \* when that many transactions of this call were sent
    nonce,            \* the nonce looked up when that many were sent
    txn,              \* local txn: the transaction built last
    txs,              \* transactions sent in this call, in order
    status,           \* what the call returned
    insufficient_at,  \* len(txs) when estimate_gas raised 'insufficient funds'
    timed_out,        \* the receipt wait has used up its timeout
    visited           \* the stages this call has entered

flowVars == <<fpc, inv, username, invite_code, claim_badges, profile, tx_kind,
              nbadges, bidx, evals, outages, eligible_badges, cidx,
              mint_info, gas_price, nonce, txn, txs, status, insufficient_at, timed_out,
              visited>>

VARIABLES
    max_gwei,         \* constants.NETWORKS[n].max_gwei as loaded from
                      \* MaxGwei.json; 0 stands for a missing entry (None) or 0
    loaded,           \* constants.py has been imported
    stack,            \* the active calls of suggest_gas_fees and
                      \* suggest_gas_fees_metamask, innermost first
    sgf,              \* the attributes of suggest_gas_fees: gas_price,
                      \* network_name, and the age of last_update
    mm,               \* the same attributes of suggest_gas_fees_metamask
    ret,              \* the last return of suggest_gas_fees
    obtained          \* per network, the seconds since a quote for it was
                      \* last fetched from a source and returned

gasVars == <<max_gwei, loaded, stack, sgf, mm, ret, obtained>>

VARIABLES
    raw_estimate,     \* what web3.eth.estimate_gas(txn) answered
    gas_limit         \* what utils.estimate_gas returned for it; -1 before
                      \* the call

estimateVars == <<raw_estimate, gas_limit>>

VARIABLES
    sheet,            \* the "accounts" sheet after dropna: the kind of the
                      \* Private Key cell of each row (row k is sheet[k])
    columns,          \* how the columns of the sheet compare with BotAccount
    lpc,              \* position inside main() and read_accounts
    loader_accounts,  \* local accounts of read_accounts: the rows, by number
    random_indexes,   \* local random_indexes (positions are 1-based)
    read_result,      \* what read_accounts returned to main()
    run_called        \* main() called run_accounts

loadVars == <<sheet, columns, lpc, loader_accounts, random_indexes, read_result,
              run_called>>

VARIABLES
    receipt_wait      \* the call of utils.wait_for_transaction_receipt: where
                      \* it stands, its argument return_on_fail, the seconds
                      \* since start_time, its local receipt, what it returned

waitVars == <<receipt_wait>>

\* the variables of the library functions
libVars == <<estimateVars, loadVars, waitVars>>

\* what an action of run_accounts leaves alone
notRun == <<flowVars, gasVars, libVars>>

\* what an action of register_and_claim leaves alone
notFlow == <<runVars, gasVars, libVars>>

\* what an action of the gas oracle leaves alone
notGas == <<runVars, flowVars, libVars>>

\* what a call of a library function leaves alone
notLib == <<runVars, flowVars, gasVars>>

vars == <<runVars, flowVars, gasVars, libVars>>

\* ------------------------------------------------------------------------
\* run_accounts
\* ------------------------------------------------------------------------
InitLocals ==
    /\ last_state = NoFile
    /\ batch = <<>>
    /\ accounts_hashes = <<>>
    /\ bot_accounts = <<>>
    /\ last_bot_index = 0
    /\ last_bot_account = 0
    /\ pos = 0
    /\ bot_account = NoAccount
    /\ i = 0
    /\ success = FALSE
    /\ result = "none"
    /\ prompted = FALSE
    /\ continue_result = "none"
    /\ rounds = 0
    /\ calls = 0
    /\ sleeps = 0
    /\ processed = <<>>

InitRun ==
    /\ pc = "idle"
    /\ ended = "none"
    /\ file = NoFile
    /\ InitLocals

\* the process ends (by return, by the exit branch, or by an exception that
\* nothing catches) and its memory is gone
Terminate(how) ==
    /\ pc' = "idle"
    /\ ended' = how
    /\ last_state' = NoFile
    /\ batch' = <<>>
    /\ accounts_hashes' = <<>>
    /\ bot_accounts' = <<>>
    /\ last_bot_index' = 0
    /\ last_bot_account' = 0
    /\ pos' = 0
    /\ bot_account' = NoAccount
    /\ i' = 0
    /\ success' = FALSE
    /\ result' = "none"
    /\ prompted' = FALSE
    /\ continue_result' = "none"
    /\ rounds' = 0
    /\ calls' = 0
    /\ sleeps' = 0
    /\ processed' = <<>>

Exit_NextAccount(where) ==
    /\ pc' = "for"
    /\ ended' = where
    /\ UNCHANGED locals

\* the operator answered exit: `break` out of the for loop at the proxy
\* prompt (line 605), `return` at the prompt for a failed account (line 641);
\* nothing follows the for loop, so either way run_accounts is over
Exit(where) == Terminate(where)

\* main() -> run_accounts(bot_accounts), lines 522-541, and lines 551-561
\* when no resume is offered
run_accounts(b) ==
    /\ pc = "idle"
    /\ LET hs == hashes_of(b) IN
        IF b = <<>>
        THEN Terminate("returned") /\ UNCHANGED file
        ELSE IF file.exists /\ CheckpointMatches(file.order, hs)
        THEN IF index(file.order, file.account_hash) = 0
                \/ file.account_hash \notin ToSet(hs)
             THEN \* ValueError / StopIteration
                  Terminate("raised") /\ UNCHANGED file
             ELSE /\ pc' = "continue_prompt"
                  /\ ended' = "none"
                  /\ last_state' = file
                  /\ batch' = b
                  /\ accounts_hashes' = hs
                  /\ bot_accounts' = b
                  /\ last_bot_index' = index(file.order, file.account_hash)
                  /\ last_bot_account' = b[index(hs, file.account_hash)]
                  /\ UNCHANGED <<file, pos, bot_account, i, success, result,
                                 prompted, continue_result, rounds, calls, sleeps, processed>>
        ELSE /\ pc' = "for"
             /\ ended' = "none"
             /\ last_state' = file
             /\ batch' = b
             /\ accounts_hashes' = hs
             /\ bot_accounts' = b
             /\ file' = Checkpoint(hs, b)
             /\ UNCHANGED <<last_bot_index, last_bot_account, pos, bot_account,
                            i, success, result, prompted, continue_result, rounds, calls,
                            sleeps, processed>>

\* main.py, lines 652-658, reduced to the call: main() hands run_accounts any
\* list the loader can return for a sheet of up to MaxLen account rows
StartRun ==
    /\ \E b \in Batches : run_accounts(b)
    /\ UNCHANGED notRun

\* lines 543-561: the operator answers the resume prompt
ContinuePrompt ==
    /\ pc = "continue_prompt"
    /\ prompted' = TRUE
    /\ \E answer \in {"y", "n"} :
        LET accepted == answer = "y"
            accounts == IF accepted
                        THEN ResumedAccounts(bot_accounts, accounts_hashes,
                                             last_state.order, last_bot_index,
                                             last_bot_account)
                        ELSE bot_accounts
            hs == IF accepted
                  THEN [k \in 1..Len(last_state.order) |->
                          hash(bot_accounts[index(accounts_hashes, last_state.order[k])])]
                  ELSE accounts_hashes
        IN  /\ continue_result' = answer
            /\ bot_accounts' = accounts
            /\ accounts_hashes' = hs
            /\ file' = Checkpoint(hs, accounts)
    /\ pc' = "for"
    /\ UNCHANGED <<ended, last_state, batch, last_bot_index,
                   last_bot_account, pos, bot_account, i, success, result,
                   rounds, calls, sleeps, processed>>
    /\ UNCHANGED notRun

\* lines 563-577: the for loop takes the next row (its fields are read here
\* for the first time), changes the mobile proxy, and decides on the proxy test
ForAccount ==
    /\ pc = "for"
    /\ IF pos = Len(bot_accounts)
       THEN Terminate("returned")
       ELSE \E auto_skip \in BOOLEAN, max_retries \in 0..MaxRetries,
               proxy \in BOOLEAN, changelink \in {"none", "200", "500", "raise"} :
            IF changelink = "raise"
            THEN Terminate("raised")
            ELSE /\ pos' = pos + 1
                 /\ bot_account' = [private_key |-> bot_accounts[pos + 1],
                                    auto_skip |-> auto_skip,
                                    max_retries |-> max_retries,
                                    proxy |-> proxy]
                 /\ processed' = Append(processed, hash(bot_accounts[pos + 1]))
                 /\ rounds' = 0
                 /\ pc' = IF proxy THEN "test_proxy" ELSE "while"
                 /\ UNCHANGED <<ended, last_state, batch, accounts_hashes,
                                bot_accounts, last_bot_index, last_bot_account,
                                i, success, result, prompted, continue_result, calls, sleeps>>
    /\ UNCHANGED file
    /\ UNCHANGED notRun

\* lines 580-595 with utils.test_proxy: one test of the proxy loop
TestProxy ==
    /\ pc = "test_proxy"
    /\ \E proxy_test_result \in {"ip", "True", "False", "KeyboardInterrupt", "raise"} :
        CASE proxy_test_result \in {"ip", "True"} ->
                pc' = "while" /\ UNCHANGED <<ended, locals>>
          [] proxy_test_result = "False" ->
                pc' = "proxy_sleep" /\ UNCHANGED <<ended, locals>>
          [] proxy_test_result = "KeyboardInterrupt" ->
                pc' = "proxy_prompt" /\ UNCHANGED <<ended, locals>>
          [] OTHER ->
                Terminate("raised")
    /\ UNCHANGED file
    /\ UNCHANGED notRun

\* lines 589-595: after a failed test the loop sleeps 15 seconds (a raw
\* time.sleep inside the try) and tests again; Ctrl+C during the sleep is
\* caught by the same except clause
ProxySleep ==
    /\ pc = "proxy_sleep"
    /\ \E interrupted \in BOOLEAN :
        pc' = IF interrupted THEN "proxy_prompt" ELSE "test_proxy"
    /\ UNCHANGED <<ended, file, locals>>
    /\ UNCHANGED notRun

\* lines 597-609
ProxyPrompt ==
    /\ pc = "proxy_prompt"
    /\ \E proxy_result \in {"skip", "exit", "delete"} :
        CASE proxy_result = "skip" ->
                pc' = "for" /\ UNCHANGED <<ended, locals>>
          [] proxy_result = "exit" ->
                Exit("exit at proxy prompt")
          [] OTHER ->
                /\ bot_account' = [bot_account EXCEPT !.proxy = FALSE]
                /\ pc' = "while"
                /\ UNCHANGED <<ended, last_state, batch, accounts_hashes,
                               bot_accounts, last_bot_index, last_bot_account,
                               pos, i, success, result, prompted, continue_result, rounds,
                               calls, sleeps, processed>>
    /\ UNCHANGED file
    /\ UNCHANGED notRun

\* lines 611-614: a round of the while loop begins
While ==
    /\ pc = "while"
    /\ rounds < MaxRounds
    /\ rounds' = rounds + 1
    /\ success' = FALSE
    /\ i' = 0
    /\ calls' = 0
    /\ sleeps' = 0
    /\ pc' = "attempt"
    /\ UNCHANGED <<ended, file, last_state, batch, accounts_hashes,
                   bot_accounts, last_bot_index, last_bot_account, pos,
                   bot_account, result, prompted, continue_result, processed>>
    /\ UNCHANGED notRun

\* where the for loop of line 614 goes after the body ran for i
AfterBody ==
    IF i + 1 < Max(1, bot_account.max_retries)
    THEN /\ i' = i + 1
         /\ pc' = "attempt"
    ELSE /\ i' = i
         /\ pc' = "for_else"

SleepsAfterFailure_Always(k, max_retries) == TRUE

\* the test of line 628
SleepsAfterFailure(k, max_retries) == k < max_retries - 1

Succeeded_UnlessFailed(r) == r # "FAILED"

\* the test of line 624: `result == enums.TransactionStatus.SUCCESS`
Succeeded(r) == r = "SUCCESS"

\* lines 615-629 and 646-649: one call of register_and_claim
Attempt ==
    /\ pc = "attempt"
    /\ \E r \in Outcomes :
        CASE r = "RAISED" ->
                Terminate("raised")
          [] Succeeded(r) ->
                /\ calls' = calls + 1
                /\ result' = r
                /\ success' = TRUE
                /\ pc' = "for"
                /\ UNCHANGED <<ended, i>>
          [] OTHER ->
                /\ calls' = calls + 1
                /\ result' = r
                /\ IF SleepsAfterFailure(i, bot_account.max_retries)
                   THEN pc' = "random_sleep" /\ i' = i
                   ELSE AfterBody
                /\ UNCHANGED <<ended, success>>
    /\ UNCHANGED <<file, last_state, batch, accounts_hashes, bot_accounts,
                   last_bot_index, last_bot_account, pos, bot_account,
                   prompted, continue_result, rounds, sleeps, processed>>
    /\ UNCHANGED notRun

\* line 629: utils.random_sleep() between two attempts; a KeyboardInterrupt
\* only shortens it
RandomSleep ==
    /\ pc = "random_sleep"
    /\ sleeps' = sleeps + 1
    /\ AfterBody
    /\ UNCHANGED <<ended, file, last_state, batch, accounts_hashes,
                   bot_accounts, last_bot_index, last_bot_account, pos,
                   bot_account, success, result, prompted, continue_result, rounds, calls,
                   processed>>
    /\ UNCHANGED notRun

\* lines 630-633 and 646: the else branch of the for loop
ForElse ==
    /\ pc = "for_else"
    /\ pc' = IF ~bot_account.auto_skip THEN "fail_prompt" ELSE "while"
    /\ UNCHANGED <<ended, file, locals>>
    /\ UNCHANGED notRun

\* lines 634-646: the operator decides about a failed account
FailPrompt ==
    /\ pc = "fail_prompt"
    /\ \E answer \in {"skip", "exit", "retry"} :
        CASE answer = "skip" ->
                pc' = "for" /\ UNCHANGED <<ended, locals>>
          [] answer = "exit" ->
                Exit("exit at failure prompt")
          [] OTHER ->
                \* utils.random_sleep(), then the while loop goes round
                pc' = "while" /\ UNCHANGED <<ended, locals>>
    /\ UNCHANGED file
    /\ UNCHANGED notRun

NextRun ==
    \/ StartRun
    \/ ContinuePrompt
    \/ ForAccount
    \/ TestProxy
    \/ ProxySleep
    \/ ProxyPrompt
    \/ While
    \/ Attempt
    \/ RandomSleep
    \/ ForElse
    \/ FailPrompt

\* ------------------------------------------------------------------------
\* register_and_claim and get_eligible_badges
\* ------------------------------------------------------------------------
\* badgelist = CUSTOM_BADGES + fetched catalog: its positions; position 1 is
\* the built-in 'Ethereum Year' badge object, shared by all calls
CUSTOM_BADGES == {1}

MaxBadges == Cardinality(CUSTOM_BADGES) + MaxCatalog

NoMintInfo == [b \in 1..MaxBadges |-> 0]

NoTxn == [kind |-> "none", badge |-> 0, data |-> 0, gas_price |-> -1,
          nonce |-> -1, receipt |-> "none"]

InitFlow ==
    /\ fpc = "idle"
    /\ inv = 0
    /\ username = "random"
    /\ invite_code = FALSE
    /\ claim_badges = FALSE
    /\ profile = "unknown"
    /\ tx_kind = "none"
    /\ nbadges = 0
    /\ bidx = 0
    /\ evals = <<>>
    /\ outages = {}
    /\ eligible_badges = <<>>
    /\ cidx = 0
    /\ mint_info = NoMintInfo
    /\ gas_price = -1
    /\ nonce = -1
    /\ txn = NoTxn
    /\ txs = <<>>
    /\ status = "none"
    /\ insufficient_at = -1
    /\ timed_out = FALSE
    /\ visited = {}

\* `return status`
Return(s) ==
    /\ fpc' = "returned"
    /\ status' = s

\* an exception leaves register_and_claim (nothing in it catches one outside
\* the three estimate_gas blocks and the two requests.get blocks of
\* get_eligible_badges)
Raise ==
    /\ fpc' = "raised"
    /\ status' = "RAISED"

\* Ctrl+C during a wait that nothing guards: the KeyboardInterrupt leaves
\* register_and_claim like any other exception
Interrupt ==
    /\ fpc' = "raised"
    /\ status' = "INTERRUPTED"

\* enter a stage of the workflow
Enter(stage) ==
    /\ fpc' = stage
    /\ visited' = visited \cup {stage}
    /\ UNCHANGED status

\* run_accounts calls register_and_claim (lines 179-210)
Invoke ==
    /\ fpc \in {"idle", "returned", "raised"}
    /\ inv < MaxInvocations
    /\ inv' = inv + 1
    /\ \E u \in {"random", "given"}, ic \in BOOLEAN, cb \in BOOLEAN :
        /\ username' = u
        /\ invite_code' = ic
        /\ claim_badges' = cb
    /\ fpc' = "profile"
    /\ visited' = {"profile"}
    /\ status' = "none"
    /\ profile' = "unknown"
    /\ tx_kind' = "none"
    /\ nbadges' = 0
    /\ bidx' = 0
    /\ evals' = <<>>
    /\ outages' = {}
    /\ eligible_badges' = <<>>
    /\ cidx' = 0
    /\ gas_price' = -1
    /\ nonce' = -1
    /\ txn' = NoTxn
    /\ txs' = <<>>
    /\ insufficient_at' = -1
    /\ timed_out' = FALSE
    /\ UNCHANGED mint_info
    /\ UNCHANGED notFlow

NeedsMint_Always(is_profile_minted) == TRUE

\* line 216: the else branch (mint) is taken when the profile is not minted
NeedsMint(is_profile_minted) == ~is_profile_minted

\* lines 345-352: after the profile stage
AfterProfile ==
    IF ~claim_badges
    THEN Return("SUCCESS") /\ UNCHANGED visited
    ELSE Enter("badgelist")

\* lines 212-219
ProfileCheck ==
    /\ fpc = "profile"
    /\ \E answer \in {"True", "False", "raise"} :
        IF answer = "raise"
        THEN Raise /\ UNCHANGED <<profile, visited>>
        ELSE /\ profile' = IF answer = "True" THEN "minted" ELSE "unminted"
             /\ IF NeedsMint(answer = "True")
                THEN Enter("username")
                ELSE AfterProfile
    /\ UNCHANGED <<inv, username, invite_code, claim_badges, tx_kind, nbadges,
                   bidx, evals, outages, eligible_badges, cidx, mint_info, gas_price,
                   nonce, txn, txs,
                   insufficient_at, timed_out>>
    /\ UNCHANGED notFlow

\* utils.check_username / utils.check_invite_code on what the loader lets
\* through: the loader rejects every row whose username or invite code does
\* not match, so the arguments always do
check_username(u) == u \in {"given", "generated"}

check_invite_code(ic) == ic

\* lines 221-250: the username is generated (one pass of the while loop) or
\* checked
UsernameResolve ==
    /\ fpc = "username"
    /\ IF username = "random"
       THEN \E pass \in {"raise", "not ok", "unusable", "usable"},
               sleep_interrupted \in BOOLEAN :
              CASE pass = "raise" -> Raise /\ UNCHANGED visited
                [] pass = "usable" -> Enter("invite")
                [] sleep_interrupted -> \* Ctrl+C during time.sleep(1), line 242
                            Interrupt /\ UNCHANGED visited
                [] OTHER -> \* time.sleep(1) and the loop goes round
                            UNCHANGED <<fpc, status, visited>>
       ELSE IF ~check_username(username)
            THEN Return("FAILED") /\ UNCHANGED visited
            ELSE \E is_username_used \in {"True", "False", "raise"} :
              CASE is_username_used = "raise" -> Raise /\ UNCHANGED visited
                [] is_username_used = "True" -> Return("FAILED") /\ UNCHANGED visited
                [] OTHER -> Enter("invite")
    /\ UNCHANGED <<inv, username, invite_code, claim_badges, profile, tx_kind,
                   nbadges, bidx, evals, outages, eligible_badges, cidx, mint_info, gas_price,
                   nonce, txn, txs,
                   insufficient_at, timed_out>>
    /\ UNCHANGED notFlow

\* lines 252-292: the invite code is validated and the referral signature
\* fetched; then the mint transaction is prepared
InviteValidate ==
    /\ fpc = "invite"
    /\ IF invite_code
       THEN IF ~check_invite_code(invite_code)
            THEN Return("FAILED") /\ UNCHANGED <<visited, tx_kind>>
            ELSE \E code \in {"raise", "not ok", "inactive", "active"},
                    referral \in {"raise", "not ok", "ok"} :
              CASE code = "raise" \/ (code = "active" /\ referral = "raise") ->
                      Raise /\ UNCHANGED <<visited, tx_kind>>
                [] code = "active" /\ referral = "ok" ->
                      Enter("gas") /\ tx_kind' = "mint"
                [] OTHER ->
                      Return("FAILED") /\ UNCHANGED <<visited, tx_kind>>
       ELSE Enter("gas") /\ tx_kind' = "mint"
    /\ UNCHANGED <<inv, username, invite_code, claim_badges, profile, nbadges,
                   bidx, evals, outages, eligible_badges, cidx, mint_info, gas_price,
                   nonce, txn, txs,
                   insufficient_at, timed_out>>
    /\ UNCHANGED notFlow

\* the shapes of the dict utils.suggest_gas_fees returns (utils.py, lines
\* 129-132 and 202-210); it never returns None or an empty dict
GasQuotes == {"gasPrice", "maxFeePerGas"}

FreshQuote_KeepHeld(held, sent) == IF held >= 0 THEN held ELSE sent

\* lines 294-297, 361-364, 459-462: `gas_price = utils.suggest_gas_fees(...)`
\* replaces whatever the local held by the result of the call made now, when
\* `sent` transactions of this call have been sent
FreshQuote(held, sent) == sent

\* lines 294-300, 361-367, 459-465: utils.suggest_gas_fees is asked for a
\* quote; it returns a non-empty dict or does not return (see the gas oracle)
GasFees ==
    /\ fpc = "gas"
    /\ \E quote \in GasQuotes :
        IF quote = "None"
        THEN Return("FAILED") /\ UNCHANGED <<visited, gas_price>>
        ELSE /\ gas_price' = FreshQuote(gas_price, Len(txs))
             /\ Enter("build")
    /\ UNCHANGED <<inv, username, invite_code, claim_badges, profile, tx_kind,
                   nbadges, bidx, evals, outages, eligible_badges, cidx, mint_info,
                   nonce, txn, txs, insufficient_at, timed_out>>
    /\ UNCHANGED notFlow

\* lines 302-314, 369-378, 467-488: the nonce is looked up and the
\* transaction built
BuildTxn ==
    /\ fpc = "build"
    /\ \E get_transaction_count \in {"ok", "raise"} :
        IF get_transaction_count = "raise"
        THEN Raise /\ UNCHANGED <<visited, nonce, txn>>
        ELSE /\ nonce' = Len(txs)
             /\ txn' = [kind |-> tx_kind,
                        badge |-> IF tx_kind = "claim"
                                  THEN eligible_badges[cidx] ELSE 0,
                        data |-> IF tx_kind = "claim"
                                 THEN mint_info[eligible_badges[cidx]] ELSE 0,
                        gas_price |-> gas_price,
                        nonce |-> Len(txs),
                        receipt |-> "none"]
             /\ Enter("estimate")
    /\ UNCHANGED <<inv, username, invite_code, claim_badges, profile, tx_kind,
                   nbadges, bidx, evals, outages, eligible_badges, cidx, mint_info,
                   gas_price, txs, insufficient_at, timed_out>>
    /\ UNCHANGED notFlow

StatusOfEstimateError_Generic(e) == "FAILED"

\* lines 318-323, 382-387, 492-497: the except branch of estimate_gas
StatusOfEstimateError(e) ==
    IF e = "insufficient funds" THEN "INSUFFICIENT_BALANCE" ELSE "FAILED"

\* lines 316-323, 380-387, 490-497
EstimateGas ==
    /\ fpc = "estimate"
    /\ \E e \in {"ok", "insufficient funds", "execution reverted"} :
        IF e = "ok"
        THEN Enter("send") /\ UNCHANGED insufficient_at
        ELSE /\ Return(StatusOfEstimateError(e))
             /\ insufficient_at' = IF e = "insufficient funds"
                                   THEN Len(txs) ELSE insufficient_at
             /\ UNCHANGED visited
    /\ UNCHANGED <<inv, username, invite_code, claim_badges, profile, tx_kind,
                   nbadges, bidx, evals, outages, eligible_badges, cidx, mint_info,
                   gas_price, nonce, txn, txs, timed_out>>
    /\ UNCHANGED notFlow

\* lines 325-329, 389-393, 499-503: sign and send
SendTxn ==
    /\ fpc = "send"
    /\ \E send_raw_transaction \in {"ok", "raise"} :
        IF send_raw_transaction = "raise"
        THEN Raise /\ UNCHANGED <<visited, txs>>
        ELSE /\ txs' = Append(txs, [txn EXCEPT !.receipt = "pending"])
             /\ Enter("wait")
    /\ timed_out' = FALSE
    /\ UNCHANGED <<inv, username, invite_code, claim_badges, profile, tx_kind,
                   nbadges, bidx, evals, outages, eligible_badges, cidx, mint_info,
                   gas_price, nonce, txn, insufficient_at>>
    /\ UNCHANGED notFlow

ReceiptOk_AnyReceipt(receipt) == receipt # "None"

ReceiptOk_AnyStatus(receipt) == receipt \in {"1", "0"}

ReceiptOk_Always(receipt) == TRUE

\* lines 337, 401, 511: `receipt and receipt['status'] == 1`
ReceiptOk(receipt) == receipt = "1"

SetReceipt(receipt) == [txs EXCEPT ![Len(txs)].receipt = receipt]

\* lines 337-343, 401-407, 511-515: what follows the receipt wait
AfterReceipt(receipt) ==
    /\ txs' = SetReceipt(receipt)
    /\ IF ~ReceiptOk(receipt)
       THEN Return("FAILED") /\ UNCHANGED <<visited, cidx>>
       ELSE CASE tx_kind = "mint" ->
                    AfterProfile /\ UNCHANGED cidx
              [] tx_kind = "claim" ->
                    IF cidx < Len(eligible_badges)
                    THEN cidx' = cidx + 1 /\ Enter("gas")
                    ELSE Enter("origins") /\ UNCHANGED cidx
              [] OTHER ->
                    Return("SUCCESS") /\ UNCHANGED <<visited, cidx>>

\* utils.wait_for_transaction_receipt, lines 74-86 and 95-97: one pass of the
\* polling loop up to the prompt
WaitReceipt ==
    /\ fpc = "wait"
    /\ \E poll \in {"1", "0", "exception", "exception after timeout",
                    "KeyboardInterrupt"} :
        CASE poll \in {"1", "0"} ->
                AfterReceipt(poll) /\ UNCHANGED timed_out
          [] poll = "KeyboardInterrupt" ->
                \* Ctrl+C during the poll or during time.sleep of line 95
                Interrupt /\ UNCHANGED <<visited, cidx, txs, timed_out>>
          [] poll = "exception" ->
                \* time.sleep(min(5, timeout / 10)) and poll again
                /\ ~timed_out
                /\ UNCHANGED <<fpc, status, visited, cidx, txs, timed_out>>
          [] OTHER ->
                /\ timed_out' = TRUE
                /\ fpc' = "receipt_prompt"
                /\ UNCHANGED <<status, visited, cidx, txs>>
    /\ UNCHANGED <<inv, username, invite_code, claim_badges, profile, tx_kind,
                   nbadges, bidx, evals, outages, eligible_badges, mint_info,
                   gas_price, nonce, txn, insufficient_at>>
    /\ UNCHANGED notFlow

\* utils.wait_for_transaction_receipt, lines 86-95: the operator presses
\* Enter and the receipt is asked for once more
ReceiptPrompt ==
    /\ fpc = "receipt_prompt"
    /\ \E poll \in {"receipt", "exception", "KeyboardInterrupt"} :
        CASE poll = "exception" ->
                AfterReceipt("None")
          [] poll = "KeyboardInterrupt" ->
                Interrupt /\ UNCHANGED <<visited, cidx, txs>>
          [] OTHER ->
                \* the receipt is not returned here: sleep, and the loop polls again
                /\ fpc' = "wait"
                /\ UNCHANGED <<status, visited, cidx, txs>>
    /\ UNCHANGED <<inv, username, invite_code, claim_badges, profile, tx_kind,
                   nbadges, bidx, evals, outages, eligible_badges, mint_info,
                   gas_price, nonce, txn, insufficient_at, timed_out>>
    /\ UNCHANGED notFlow

\* get_eligible_badges, lines 83-111: the catalog is fetched and put behind
\* the built-in badges; the fetched badges are new objects
FetchBadgeList ==
    /\ fpc = "badgelist"
    /\ \E badgelist_response \in {"raise", "not ok", "ok"}, fetched \in 0..MaxCatalog :
        CASE badgelist_response = "raise" ->
                Raise /\ UNCHANGED <<visited, nbadges, bidx, mint_info>>
          [] badgelist_response = "not ok" ->
                \* get_eligible_badges returns None, line 354
                Return("FAILED") /\ UNCHANGED <<visited, nbadges, bidx, mint_info>>
          [] OTHER ->
                /\ nbadges' = Cardinality(CUSTOM_BADGES) + fetched
                /\ mint_info' = [b \in 1..MaxBadges |->
                                   IF b \in CUSTOM_BADGES THEN mint_info[b] ELSE 0]
                /\ bidx' = 1
                /\ Enter("badge_check")
    /\ UNCHANGED <<inv, username, invite_code, claim_badges, profile, tx_kind,
                   evals, outages, eligible_badges, cidx, gas_price, nonce, txn, txs,
                   insufficient_at, timed_out>>
    /\ UNCHANGED notFlow

Evaluation_NoTry(has_badge, check, claim) ==
    CASE has_badge = "raise" -> "raised"
      [] has_badge = "True" -> "claimed"
      [] check = "RequestException" -> "raised"
      [] check = "not ok" -> "skipped"
      [] check = "bad json" -> "raised"
      [] check = "not eligible" -> "skipped"
      [] claim = "RequestException" -> "skipped"
      [] claim = "bad json" -> "raised"
      [] claim = "not ok" -> "skipped"
      [] OTHER -> "collected"

\* get_eligible_badges, lines 114-174: how the evaluation of one badge ends,
\* given what hasBadge, the check endpoint and the claim endpoint answer
Evaluation(has_badge, check, claim) ==
    CASE has_badge = "raise" -> "raised"
      [] has_badge = "True" -> "claimed"
      [] check = "RequestException" -> "outage"
      [] check = "not ok" -> "skipped"
      [] check = "bad json" -> "raised"
      [] check = "not eligible" -> "skipped"
      [] claim = "RequestException" -> "skipped"
      [] claim = "bad json" -> "raised"
      [] claim = "not ok" -> "skipped"
      [] OTHER -> "collected"

MintInfoAfter_OnlyIfNone(info, badge, e, call) ==
    IF e = "collected" /\ info[badge] = 0
    THEN [info EXCEPT ![badge] = call]
    ELSE info

\* get_eligible_badges, lines 155-161: `badge.mint_info = MintInfo(...)` in
\* the branch that appends the badge; the payload is the one the claim
\* endpoint returned to this call
MintInfoAfter(info, badge, e, call) ==
    IF e = "collected" THEN [info EXCEPT ![badge] = call] ELSE info

\* get_eligible_badges, lines 113-176, and lines 354-360: one pass of
\* `for badge in badgelist`; after the last one the list is returned
CheckBadge ==
    /\ fpc = "badge_check"
    /\ \E has_badge \in {"raise", "True", "False"},
          check \in {"RequestException", "not ok", "bad json", "not eligible", "eligible"},
          claim \in {"RequestException", "bad json", "not ok", "ok"} :
        LET e == Evaluation(has_badge, check, claim)
            mintable == IF e = "collected"
                        THEN Append(eligible_badges, bidx) ELSE eligible_badges
        IN  /\ evals' = Append(evals, e)
            /\ outages' = IF has_badge = "False" /\ check = "RequestException"
                           THEN outages \cup {bidx} ELSE outages
            /\ IF e = "raised"
               THEN /\ Raise
                    /\ UNCHANGED <<visited, eligible_badges, mint_info, bidx,
                                   tx_kind, cidx>>
               ELSE /\ eligible_badges' = mintable
                    /\ mint_info' = MintInfoAfter(mint_info, bidx, e, inv)
                    /\ IF bidx < nbadges
                       THEN /\ bidx' = bidx + 1
                            /\ UNCHANGED <<fpc, status, visited, tx_kind, cidx>>
                       ELSE /\ bidx' = bidx
                            /\ IF mintable # <<>>
                               THEN /\ tx_kind' = "claim"
                                    /\ cidx' = 1
                                    /\ Enter("gas")
                               ELSE /\ Enter("origins")
                                    /\ UNCHANGED <<tx_kind, cidx>>
    /\ UNCHANGED <<inv, username, invite_code, claim_badges, profile, nbadges,
                   gas_price, nonce, txn, txs, insufficient_at, timed_out>>
    /\ UNCHANGED notFlow

\* lines 411-457: the Scroll Origins NFT badge
OriginsCheck ==
    /\ fpc = "origins"
    /\ \E has_badge \in {"raise", "True", "False"},
          minted \in {"raise", "True", "False"},
          token_of_owner \in {"raise", "ok"} :
        CASE has_badge = "raise"
             \/ (has_badge = "False" /\ minted = "raise")
             \/ (has_badge = "False" /\ minted = "True" /\ token_of_owner = "raise") ->
                Raise /\ UNCHANGED <<visited, tx_kind>>
          [] has_badge = "True" \/ minted = "False" ->
                Return("SUCCESS") /\ UNCHANGED <<visited, tx_kind>>
          [] OTHER ->
                /\ tx_kind' = "attest"
                /\ Enter("gas")
    /\ UNCHANGED <<inv, username, invite_code, claim_badges, profile, nbadges,
                   bidx, evals, outages, eligible_badges, cidx, mint_info, gas_price,
                   nonce, txn, txs, insufficient_at, timed_out>>
    /\ UNCHANGED notFlow

NextFlow ==
    \/ Invoke
    \/ ProfileCheck
    \/ UsernameResolve
    \/ InviteValidate
    \/ GasFees
    \/ BuildTxn
    \/ EstimateGas
    \/ SendTxn
    \/ WaitReceipt
    \/ ReceiptPrompt
    \/ FetchBadgeList
    \/ CheckBadge
    \/ OriginsCheck

\* ------------------------------------------------------------------------
\* The gas oracle: utils.suggest_gas_fees and utils.suggest_gas_fees_metamask
\* ------------------------------------------------------------------------
\* enums.NetworkNames
NetworkNames == {"ETH", "Scroll"}

\* constants.NETWORKS[n].rabby_id
rabby_id(n) == IF n = "ETH" THEN "eth" ELSE "scrl"

\* Web3.to_wei(x, 'gwei') and Web3.from_wei(x, 'gwei'): 1 gwei = 10^9 wei
WeiPerGwei == 1000000000

to_wei(gwei) == gwei * WeiPerGwei

\* the freshness window of both caches, in seconds
TTL == 10

\* the prices (in wei) a source may quote: half a gwei, one and a half gwei
Prices == {500000000, 1500000000}

\* the ceilings MaxGwei.json may set, in gwei (0: none)
Ceilings == {0, 1}

\* the seconds that may pass during a request, a sleep or between two calls;
\* sleep(10) takes 10 seconds unless Ctrl+C cuts it short
Durations == {0, 5, 10}

NoQuote == [shape |-> "None", price |-> 0, priority |-> 0, net |-> "None",
            source |-> "None"]

\* an attribute set that was never written: getattr(..., default)
NoCache == [gas_price |-> NoQuote, network_name |-> "None", age |-> TTL + 1]

NoReturn == [network_name |-> "None", gas_price |-> NoQuote, via |-> "None",
             depth |-> 0, over |-> FALSE]

Min(a, b) == IF a <= b THEN a ELSE b

\* d seconds later (an age beyond the window is kept as TTL + 1)
Older(cache, d) == [cache EXCEPT !.age = Min(cache.age + d, TTL + 1)]

\* d seconds later, for the quotes last obtained
Aged(ages, d) == [n \in NetworkNames |-> Min(ages[n] + d, TTL + 1)]

InitGas ==
    /\ obtained = [n \in NetworkNames |-> TTL + 1]
    /\ max_gwei = [n \in NetworkNames |-> 0]
    /\ loaded = FALSE
    /\ stack = <<>>
    /\ sgf = NoCache
    /\ mm = NoCache
    /\ ret = NoReturn

\* constants.py, lines 24-50: MaxGwei.json is read when the module is imported
LoadNetworks ==
    /\ ~loaded
    /\ loaded' = TRUE
    /\ max_gwei' \in [NetworkNames -> Ceilings]
    /\ UNCHANGED <<stack, sgf, mm, ret, obtained>>
    /\ UNCHANGED notGas

CacheMiss_AgeOnly(cache, network_name) == cache.age > TTL

\* lines 107 and 157: the cache does not answer the request
CacheMiss(cache, network_name) ==
    cache.age > TTL \/ cache.network_name # network_name

WithinCeiling_NoCeiling(network_name, gas_wei) == TRUE

\* lines 134 and 195: `not network.max_gwei or float(gas_gwei) <= network.max_gwei`
WithinCeiling(network_name, gas_wei) ==
    max_gwei[network_name] = 0 \/ gas_wei <= to_wei(max_gwei[network_name])

\* the keys of the dict a quote stands for (None and {} have none)
Keys(quote) ==
    CASE quote.shape = "gasPrice" -> {"gasPrice"}
      [] quote.shape = "maxFeePerGas" -> {"maxFeePerGas", "maxPriorityFeePerGas"}
      [] OTHER -> {}

\* main.py, lines 299, 366, 464: `if not gas_price` (None or an empty dict)
NoQuoteReturned(quote) == Keys(quote) = {}

RabbyQuote_NoneWithoutPriority(network_name, gas_wei, priority_gas) ==
    IF priority_gas # -1
    THEN [shape |-> "maxFeePerGas", price |-> gas_wei, priority |-> priority_gas,
          net |-> network_name, source |-> "rabby"]
    ELSE NoQuote

\* lines 193 and 202-210: the dict built from a Rabby answer; a priority_gas
\* of -1 stands for an answer without 'priority_price' (None)
RabbyQuote(network_name, gas_wei, priority_gas) ==
    IF priority_gas # -1
    THEN [shape |-> "maxFeePerGas", price |-> gas_wei, priority |-> priority_gas,
          net |-> network_name, source |-> "rabby"]
    ELSE [shape |-> "gasPrice", price |-> gas_wei, priority |-> 0,
          net |-> network_name, source |-> "rabby"]

\* lines 129-132: the dict built from a MetaMask answer
MetamaskQuote(network_name, gas_wei, priority_gas) ==
    [shape |-> "maxFeePerGas", price |-> gas_wei, priority |-> priority_gas,
     net |-> network_name, source |-> "metamask"]

\* a call of either function: where it stands, its locals `response` and
\* gas_wei / gas_gwei (as wei; 0 before the first answer), and whether it has
\* seen a price above the ceiling; `within` tells whether the call was made
\* within TTL seconds of the last quote obtained for its network; `primary`
\* is what Rabby answered last to the request the call serves ("None": not
\* asked yet) and `answered` whether Rabby has answered it with a 200;
\* `eth_checked` tells whether the ETH lookup of line 165 was made for the
\* request since the call last slept
Frame(fn, network_name, at) ==
    [fn |-> fn, network_name |-> network_name, at |-> at, response |-> "None",
     gas_wei |-> 0, over |-> FALSE, within |-> obtained[network_name] <= TTL,
     primary |-> "None", answered |-> FALSE, eth_checked |-> FALSE]

PrimaryFailed_Whatever(response) == TRUE

\* lines 180-186: the request raised, or its status code is not 200
PrimaryFailed(response) == response # "200"

\* a call returns its quote: the frame is popped; a return of
\* suggest_gas_fees (also through `return suggest_gas_fees_metamask(...)`)
\* is recorded
Returns(quote, via) ==
    /\ stack' = Tail(stack)
    /\ ret' = [network_name |-> Head(stack).network_name,
               gas_price |-> quote, via |-> via, depth |-> Len(stack),
               over |-> Head(stack).over]

\* main.py, lines 294, 361, 459, and lines 154-161, 217-218: the workflow
\* asks for a Scroll quote
Request ==
    /\ loaded
    /\ stack = <<>>
    /\ LET network_name == "Scroll" IN
        IF CacheMiss(sgf, network_name)
        THEN /\ stack' = <<Frame(IF rabby_id(network_name) = "None"
                                 THEN "metamask" ELSE "rabby",
                                 network_name, "loop")>>
             /\ UNCHANGED ret
        ELSE /\ ret' = [network_name |-> network_name, gas_price |-> sgf.gas_price,
                          via |-> "cache", depth |-> 1, over |-> FALSE]
             /\ UNCHANGED stack
    /\ UNCHANGED <<max_gwei, loaded, sgf, mm, obtained>>
    /\ UNCHANGED notGas

\* lines 163-165 (and 154-161, 217-218 for the nested call): the top of the
\* while loop; a Scroll request first asks for an ETH quote and drops it
LoopTop ==
    /\ stack # <<>>
    /\ Head(stack).fn = "rabby"
    /\ Head(stack).at = "loop"
    /\ LET network_name == Head(stack).network_name
           waiting == <<[Head(stack) EXCEPT !.at = "request",
                                            !.eth_checked = network_name = "Scroll"]>>
                      \o Tail(stack)
       IN  IF network_name = "Scroll"
           THEN IF CacheMiss(sgf, "ETH")
                THEN /\ stack' = <<Frame("rabby", "ETH", "loop")>> \o waiting
                     /\ UNCHANGED ret
                ELSE /\ stack' = waiting
                     /\ ret' = [network_name |-> "ETH", gas_price |-> sgf.gas_price,
                                via |-> "cache", depth |-> Len(stack) + 1,
                                over |-> FALSE]
           ELSE /\ stack' = waiting
                /\ UNCHANGED ret
    /\ UNCHANGED <<max_gwei, loaded, sgf, mm, obtained>>
    /\ UNCHANGED notGas

\* lines 167-200 and 202-216: the Rabby gas market is asked
RabbyRequest ==
    /\ stack # <<>>
    /\ Head(stack).fn = "rabby"
    /\ Head(stack).at = "request"
    /\ \E response \in {"exception", "500", "200"}, gas_wei \in Prices,
          priority_gas \in {-1, 1}, d \in Durations :
        LET network_name == Head(stack).network_name
            quote == RabbyQuote(network_name, gas_wei, priority_gas)
        IN  CASE PrimaryFailed(response) ->
                    /\ sgf' = Older(sgf, d)
                    /\ mm' = Older(mm, d)
                    /\ obtained' = Aged(obtained, d)
                    /\ IF CacheMiss(Older(mm, d), network_name)
                       THEN /\ stack' = <<[Frame("metamask", network_name, "request")
                                             EXCEPT !.within = Head(stack).within,
                                                    !.primary = response,
                                                    !.answered = Head(stack).answered,
                                                    !.eth_checked = Head(stack).eth_checked]>>
                                          \o Tail(stack)
                            /\ UNCHANGED ret
                       ELSE Returns(Older(mm, d).gas_price, "metamask cache")
              [] WithinCeiling(network_name, gas_wei) ->
                    /\ sgf' = [gas_price |-> quote,
                               network_name |-> network_name, age |-> 0]
                    /\ mm' = Older(mm, d)
                    /\ obtained' = [Aged(obtained, d) EXCEPT ![network_name] = 0]
                    /\ Returns(quote, "rabby")
              [] OTHER ->
                    /\ sgf' = Older(sgf, d)
                    /\ mm' = Older(mm, d)
                    /\ obtained' = Aged(obtained, d)
                    /\ stack' = <<[Head(stack) EXCEPT !.at = "sleep",
                                       !.response = response, !.gas_wei = gas_wei,
                                       !.over = TRUE, !.primary = response,
                                       !.answered = TRUE]>> \o Tail(stack)
                    /\ UNCHANGED ret
    /\ UNCHANGED <<max_gwei, loaded>>
    /\ UNCHANGED notGas

\* lines 111-145: the MetaMask gas API is asked
MetamaskRequest ==
    /\ stack # <<>>
    /\ Head(stack).fn = "metamask"
    /\ Head(stack).at = "request"
    /\ \E response \in {"exception", "500", "200"}, gas_wei \in Prices,
          d \in Durations :
        LET network_name == Head(stack).network_name
            quote == MetamaskQuote(network_name, gas_wei, 1)
        IN  IF response = "200" /\ WithinCeiling(network_name, gas_wei)
            THEN /\ mm' = [gas_price |-> quote,
                           network_name |-> network_name, age |-> 0]
                 /\ sgf' = Older(sgf, d)
                 /\ obtained' = [Aged(obtained, d) EXCEPT ![network_name] = 0]
                 /\ Returns(quote, "metamask")
            ELSE /\ sgf' = Older(sgf, d)
                 /\ mm' = Older(mm, d)
                 /\ obtained' = Aged(obtained, d)
                 /\ stack' = <<[Head(stack) EXCEPT !.at = "sleep",
                                    !.response = response,
                                    !.gas_wei = IF response = "200" THEN gas_wei ELSE @,
                                    !.over = @ \/ response = "200"]>> \o Tail(stack)
                 /\ UNCHANGED ret
    /\ UNCHANGED <<max_gwei, loaded>>
    /\ UNCHANGED notGas

\* lines 119, 124, 139, 200 with utils.sleep: sleep(10), then the loop goes round
GasSleep ==
    /\ stack # <<>>
    /\ Head(stack).at = "sleep"
    /\ \E d \in Durations :
        /\ sgf' = Older(sgf, d)
        /\ mm' = Older(mm, d)
        /\ obtained' = Aged(obtained, d)
    /\ stack' = <<[Head(stack) EXCEPT
                     !.at = IF Head(stack).fn = "rabby" THEN "loop" ELSE "request",
                     !.eth_checked = FALSE]>>
                \o Tail(stack)
    /\ UNCHANGED <<max_gwei, loaded, ret>>
    /\ UNCHANGED notGas

\* time passes between two requests of the workflow
Elapse ==
    /\ loaded
    /\ stack = <<>>
    /\ \E d \in Durations \ {0} :
        /\ sgf' = Older(sgf, d)
        /\ mm' = Older(mm, d)
        /\ obtained' = Aged(obtained, d)
        /\ <<sgf', mm'>> # <<sgf, mm>>
    /\ UNCHANGED <<max_gwei, loaded, stack, ret>>
    /\ UNCHANGED notGas

NextGas ==
    \/ LoadNetworks
    \/ Request
    \/ LoopTop
    \/ RabbyRequest
    \/ MetamaskRequest
    \/ GasSleep
    \/ Elapse

\* ------------------------------------------------------------------------
\* accounts_loader.read_accounts and main.main
\* ------------------------------------------------------------------------
\* what the Private Key cell of a row can be: a valid key on a row whose
\* other cells are valid too ("account"), the two marker words, or anything
\* on a row that fails one of the checks of lines 137-186 ("invalid")
RowKinds == {"account", "random", "endrandom", "invalid"}

Sheets == UNION {[1..n -> RowKinds] : n \in 0..MaxRows}

\* `return False` / `return` (None): main() gets something that is no list
NotAList == [list |-> FALSE, accounts |-> <<>>]

AList(a) == [list |-> TRUE, accounts |-> a]

InitLoad ==
    /\ sheet = <<>>
    /\ columns = "none"
    /\ lpc = "start"
    /\ loader_accounts = <<>>
    /\ random_indexes = <<>>
    /\ read_result = NotAList
    /\ run_called = FALSE

\* read_accounts returns x to main()
ReturnToMain(x) ==
    /\ lpc' = "returned"
    /\ read_result' = x

\* accounts_loader.py, lines 110-134: the sheet is read and its columns are
\* compared with the fields of BotAccount
ReadSheet ==
    /\ lpc = "start"
    /\ \E s \in Sheets, c \in {"ok", "unknown", "missing"} :
        /\ sheet' = s
        /\ columns' = c
        /\ IF c # "ok"
           THEN ReturnToMain(NotAList)
           ELSE lpc' = "rows" /\ UNCHANGED read_result
    /\ UNCHANGED <<loader_accounts, random_indexes, run_called>>
    /\ UNCHANGED <<runVars, flowVars, gasVars, estimateVars, waitVars>>

RowValid_Always(kind) == TRUE

\* lines 137-186: the private key, proxy, username and invite code checks
RowValid(kind) == kind # "invalid"

\* lines 136-209: `for row in accounts_df.itertuples()`; the first row that
\* fails a check returns False, the others are appended to accounts
ValidateRows ==
    /\ lpc = "rows"
    /\ IF \E k \in 1..Len(sheet) : ~RowValid(sheet[k])
       THEN ReturnToMain(NotAList) /\ UNCHANGED loader_accounts
       ELSE /\ loader_accounts' = [k \in 1..Len(sheet) |-> k]
            /\ lpc' = "brackets"
            /\ UNCHANGED read_result
    /\ UNCHANGED <<sheet, columns, random_indexes, run_called>>
    /\ UNCHANGED <<runVars, flowVars, gasVars, estimateVars, waitVars>>

\* line 214: account.private_key.lower() == 'random'
is_random(kind) == kind = "random"

is_endrandom_Never(kind) == FALSE

\* line 219: account.private_key.lower() == 'endrandom'
is_endrandom(kind) == kind = "endrandom"

Last(s) == s[Len(s)]

Front(s) == SubSeq(s, 1, Len(s) - 1)

\* lines 213-223: `for index, account in enumerate(accounts)` from position k
\* on; ok is FALSE where the loop returns False
RECURSIVE Scan(_, _, _)
Scan(kinds, k, ri) ==
    IF k > Len(kinds) THEN [ok |-> TRUE, random_indexes |-> ri]
    ELSE IF is_random(kinds[k])
    THEN IF ri # <<>> /\ Len(Last(ri)) = 1
         THEN [ok |-> FALSE, random_indexes |-> ri]
         ELSE Scan(kinds, k + 1, Append(ri, <<k>>))
    ELSE IF is_endrandom(kinds[k])
    THEN IF ri = <<>> \/ Len(Last(ri)) = 2
         THEN [ok |-> FALSE, random_indexes |-> ri]
         ELSE Scan(kinds, k + 1, Append(Front(ri), Append(Last(ri), k)))
    ELSE Scan(kinds, k + 1, ri)

\* lines 211-228 and 237: the markers are paired
ScanBrackets ==
    /\ lpc = "brackets"
    /\ LET kinds == [k \in 1..Len(loader_accounts) |-> sheet[loader_accounts[k]]]
           scan == Scan(kinds, 1, <<>>)
           ri == scan.random_indexes
       IN  /\ random_indexes' = ri
           /\ IF ~scan.ok THEN ReturnToMain(NotAList)
              ELSE IF ri = <<>> THEN ReturnToMain(AList(loader_accounts))
              ELSE IF Len(Last(ri)) # 2 THEN ReturnToMain(NotAList)
              ELSE lpc' = "shuffle" /\ UNCHANGED read_result
    /\ UNCHANGED <<sheet, columns, loader_accounts, run_called>>
    /\ UNCHANGED <<runVars, flowVars, gasVars, estimateVars, waitVars>>

\* list[a:b] with 1-based inclusive positions, clipped to the list as a
\* Python slice is
Slice(s, a, b) == SubSeq(s, Max(a, 1), IF b <= Len(s) THEN b ELSE Len(s))

\* list[a:b] = new
SetSlice(s, a, b, new) == Slice(s, 1, a - 1) \o new \o Slice(s, b + 1, Len(s))

\* random.sample(population, k): every choice of k elements in every order;
\* empty (ValueError) if k exceeds the population
Samples(population, k) ==
    {[j \in 1..k |-> population[f[j]]] :
        f \in {g \in [1..k -> 1..Len(population)] :
                 \A x, y \in 1..k : x # y => g[x] # g[y]}}

reversed_Forward(s) == s

\* reversed(list)
reversed(s) == [k \in 1..Len(s) |-> s[Len(s) + 1 - k]]

\* lines 230-235: the loop over the blocks in the order given; every list it
\* can leave behind, and NotAList where random.sample raises
RECURSIVE Replaced(_, _)
Replaced(acc, blocks) ==
    IF blocks = <<>> THEN {AList(acc)}
    ELSE LET start_index == Head(blocks)[1]
             end_index == Head(blocks)[2]
             difference == end_index - start_index - 1
             population == Slice(acc, start_index + 1, end_index - 1)
         IN  IF difference # 0
             THEN IF Samples(population, difference) = {}
                  THEN {NotAList}
                  ELSE UNION {Replaced(SetSlice(acc, start_index, end_index, sample),
                                       Tail(blocks)) :
                              sample \in Samples(population, difference)}
             ELSE Replaced(SetSlice(acc, start_index, end_index, <<>>), Tail(blocks))

\* lines 230-237: each block is replaced by a sample of its interior rows
ShuffleBlocks ==
    /\ lpc = "shuffle"
    /\ \E x \in Replaced(loader_accounts, reversed(random_indexes)) :
        /\ loader_accounts' = x.accounts
        /\ ReturnToMain(x)
    /\ UNCHANGED <<sheet, columns, random_indexes, run_called>>
    /\ UNCHANGED <<runVars, flowVars, gasVars, estimateVars, waitVars>>

\* main.py, lines 652-658: run_accounts is called with the list, the row
\* numbers standing for the private keys of the rows
Main ==
    /\ lpc = "returned"
    /\ lpc' = "done"
    /\ IF read_result.list
       THEN /\ run_called' = TRUE
            /\ run_accounts(read_result.accounts)
       ELSE UNCHANGED <<run_called, runVars>>
    /\ UNCHANGED <<sheet, columns, loader_accounts, random_indexes, read_result>>
    /\ UNCHANGED <<flowVars, gasVars, estimateVars, waitVars>>

NextLoad ==
    \/ ReadSheet
    \/ ValidateRows
    \/ ScanBrackets
    \/ ShuffleBlocks
    \/ Main

\* ------------------------------------------------------------------------
\* utils.wait_for_transaction_receipt
\* ------------------------------------------------------------------------
\* the default of the parameter timeout, which no caller overrides (seconds)
Timeout == 300

\* min(5, timeout / 10): the sleep between two polls
RetrySleep == Min(5, Timeout \div 10)

\* how long a poll, the prompt or the poll after it may take (seconds)
WaitDurations == {0, 5, 100, 300}

\* the clock is followed until the timeout and one sleep have passed
Later(elapsed, d) == Min(elapsed + d, Timeout + RetrySleep)

NoWait == [at |-> "idle", return_on_fail |-> FALSE, elapsed |-> 0,
           receipt |-> "unset", error |-> FALSE, prompted |-> FALSE,
           after_prompt |-> FALSE, result |-> "unset"]

InitWait == receipt_wait = NoWait

\* lines 66-73
WaitCall ==
    /\ receipt_wait.at = "idle"
    /\ \E return_on_fail \in BOOLEAN :
        receipt_wait' = [NoWait EXCEPT !.at = "poll",
                                       !.return_on_fail = return_on_fail]
    /\ UNCHANGED <<estimateVars, loadVars, notLib>>

TimedOut_AtOnce(elapsed) == TRUE

\* line 82: dt.datetime.now() - start_time >= dt.timedelta(seconds=timeout)
TimedOut(elapsed) == elapsed >= Timeout

\* lines 74-85 and 96-97: web3 waits for the receipt for what is left of the
\* timeout; it returns a receipt, raises TimeExhausted when that time is up,
\* raises another Exception earlier, or is interrupted from the keyboard
\* (KeyboardInterrupt is no Exception and is not caught)
Poll ==
    /\ receipt_wait.at = "poll"
    /\ LET w == receipt_wait
           left == Max(Timeout - w.elapsed, 0)
       IN  \E answer \in {"1", "0", "TimeExhausted", "Exception", "KeyboardInterrupt"},
              d \in WaitDurations :
            /\ d <= left
            /\ answer = "TimeExhausted" => d = 0
            /\ LET now == Later(w.elapsed, IF answer = "TimeExhausted" THEN left ELSE d)
               IN  CASE answer \in {"1", "0"} ->
                          receipt_wait' = [w EXCEPT !.at = "returned", !.elapsed = now,
                                                    !.receipt = answer, !.error = FALSE,
                                                    !.after_prompt = FALSE,
                                                    !.result = answer]
                     [] answer = "KeyboardInterrupt" ->
                          receipt_wait' = [w EXCEPT !.at = "raised", !.elapsed = now]
                     [] OTHER ->
                          receipt_wait' =
                              [w EXCEPT !.elapsed = now, !.error = TRUE,
                                        !.after_prompt = FALSE,
                                        !.at = IF ~TimedOut(now) THEN "sleep"
                                               ELSE IF w.return_on_fail THEN "returned"
                                               ELSE "prompt",
                                        !.result = IF TimedOut(now) /\ w.return_on_fail
                                                   THEN "None" ELSE @]
    /\ UNCHANGED <<estimateVars, loadVars, notLib>>

\* lines 86-94: the operator is asked to press Enter, then the receipt is
\* asked for once more; a receipt found here is kept in the local but not
\* returned: the function goes on to the sleep of line 95
ReceiptPromptStep ==
    /\ receipt_wait.at = "prompt"
    /\ LET w == receipt_wait IN
        \E answer \in {"1", "0", "Exception", "KeyboardInterrupt"} :
            CASE answer \in {"1", "0"} ->
                    receipt_wait' = [w EXCEPT !.at = "sleep", !.prompted = TRUE,
                                              !.after_prompt = TRUE,
                                              !.receipt = answer, !.error = FALSE,
                                              !.elapsed = Later(@, RetrySleep)]
              [] answer = "KeyboardInterrupt" ->
                    receipt_wait' = [w EXCEPT !.at = "raised", !.prompted = TRUE]
              [] OTHER ->
                    receipt_wait' = [w EXCEPT !.at = "returned", !.prompted = TRUE,
                                              !.after_prompt = TRUE, !.error = TRUE,
                                              !.result = "None",
                                              !.elapsed = Later(@, RetrySleep)]
    /\ UNCHANGED <<estimateVars, loadVars, notLib>>

\* line 95: time.sleep(min(5, timeout / 10)), which Ctrl+C leaves with a
\* KeyboardInterrupt, and back to the top of the loop
RetrySleepStep ==
    /\ receipt_wait.at = "sleep"
    /\ \E interrupted \in BOOLEAN :
        receipt_wait' =
            IF interrupted
            THEN [receipt_wait EXCEPT !.at = "raised"]
            ELSE [receipt_wait EXCEPT !.at = "poll",
                                      !.elapsed = Later(@, RetrySleep)]
    /\ UNCHANGED <<estimateVars, loadVars, notLib>>

NextWait ==
    \/ WaitCall
    \/ Poll
    \/ ReceiptPromptStep
    \/ RetrySleepStep

\* ------------------------------------------------------------------------
\* utils.estimate_gas
\* ------------------------------------------------------------------------
\* int(x * 1.25) for an estimate x >= 0: the product is formed and int()
\* drops its fraction
estimate_gas(x) == (x * 5) \div 4

\* the estimates the node may answer
RawEstimates == 0..MaxRawEstimate

InitEstimate ==
    /\ raw_estimate = 0
    /\ gas_limit = -1

\* utils.py, lines 221-225
EstimateGasCall ==
    /\ gas_limit = -1
    /\ gas_limit' = estimate_gas(raw_estimate)
    /\ UNCHANGED raw_estimate
    /\ UNCHANGED <<loadVars, waitVars, notLib>>

NextEstimate == EstimateGasCall

\* ------------------------------------------------------------------------
\* Claims about the gas oracle
\* ------------------------------------------------------------------------
\* the network has a non-zero fee ceiling
HasCeiling(network_name) == max_gwei[network_name] # 0

\* the price of a quote: its maxFeePerGas or its gasPrice
AboveCeiling(network_name, price) == price > to_wei(max_gwei[network_name])

\* the last return of suggest_gas_fees, from whichever source, carries a quote
\* of the requested network whose price is not above the network's ceiling
ReturnedWithinCeiling ==
    (ret.network_name # "None" /\ HasCeiling(ret.network_name)) =>
        /\ ret.gas_price.net = ret.network_name
        /\ ~AboveCeiling(ret.network_name, ret.gas_price.price)

\* a poll that was answered with a price above the ceiling returns nothing and
\* goes to sleep, and the sleep is followed by the next poll
OverCeilingWaits ==
    /\ (/\ stack # <<>> /\ Head(stack).at = "request"
        /\ Len(stack') = Len(stack)
        /\ Head(stack').fn = Head(stack).fn
        /\ Head(stack').response = "200"
        /\ HasCeiling(Head(stack).network_name)
        /\ AboveCeiling(Head(stack).network_name, Head(stack').gas_wei))
       => (Head(stack').at = "sleep" /\ ret' = ret)
    /\ (stack # <<>> /\ Head(stack).at = "sleep")
       => /\ Len(stack') = Len(stack)
          /\ Head(stack').at \in {"loop", "request"}
          /\ ret' = ret

\* C3: for a network with a non-zero max_gwei every quote suggest_gas_fees
\* returns (fetched from Rabby, fetched from MetaMask, or served from a cache)
\* had a price not above the ceiling when it was fetched, and while the quoted
\* price is above the ceiling the oracle sleeps and polls again instead of
\* returning
C3_QuotesWithinCeiling == []ReturnedWithinCeiling /\ [][OverCeilingWaits]_vars

\* a quote was returned by a call that first saw a price above the ceiling
C3_Witness ==
    /\ ret.network_name # "None"
    /\ HasCeiling(ret.network_name)
    /\ ret.over
    /\ ret.via = "rabby"

\* C19: the cache is keyed by network with a window of TTL seconds: a request
\* for a network made within TTL seconds of the last quote obtained for that
\* network is answered from the cache and goes on to no price source,
\* whatever was requested in between; so no call that was made within the
\* window is ever under way.
C19_RequestWithinWindowHitsCache ==
    \A k \in 1..Len(stack) : ~stack[k].within

SlotConsistent(cache) ==
    cache.network_name # "None" => cache.gas_price.net = cache.network_name

\* C30: the quote suggest_gas_fees returns for a request for network n was
\* obtained for n, whether it comes from a source or from a cache slot, at
\* any depth of the nested ETH lookup and on the fallback path; each of the
\* two slots holds a quote of the network recorded with it.
C30_QuoteIsOfRequestedNetwork ==
    /\ ret # NoReturn =>
          /\ ret.network_name \in NetworkNames
          /\ ret.gas_price.net = ret.network_name
    /\ SlotConsistent(sgf)
    /\ SlotConsistent(mm)

\* a Scroll request was answered on the fallback path from the slot of
\* suggest_gas_fees_metamask while the slot of suggest_gas_fees, overwritten
\* by the nested lookup, holds an ETH quote
C30_Witness ==
    /\ ret.network_name = "Scroll"
    /\ ret.via = "metamask cache"
    /\ ret.gas_price.net = "Scroll"
    /\ sgf.network_name = "ETH"
    /\ sgf.age <= TTL

\* a call of suggest_gas_fees_metamask is under way: the cache of
\* suggest_gas_fees was missed and the secondary source is being queried
SecondaryQueried(frame) == frame.fn = "metamask"

\* the secondary source is queried for a request only if the network has no
\* rabby_id or the last thing Rabby did for that request was to fail
AfterPrimaryFailure ==
    \A k \in 1..Len(stack) :
        SecondaryQueried(stack[k]) =>
            \/ rabby_id(stack[k].network_name) = "None"
            \/ stack[k].primary \in {"exception", "500"}

\* the secondary source is not queried for a request that Rabby has answered
\* with a 200
NeverAfterPrimaryAnswer ==
    \A k \in 1..Len(stack) : SecondaryQueried(stack[k]) => ~stack[k].answered

\* a 200 of Rabby is never the step that starts the secondary query
AnswerDoesNotStartQuery ==
    (/\ stack # <<>>
     /\ Head(stack).fn = "rabby"
     /\ stack' # <<>>
     /\ SecondaryQueried(Head(stack'))
     /\ Len(stack') = Len(stack)) => Head(stack').primary # "200"

\* C25 as stated: on a cache miss the secondary source is queried only after
\* the primary source failed for that request (or the network has no primary
\* identifier), and never for a request the primary source has answered
\* successfully.
C25_SecondaryOnlyWithoutPrimaryAnswer ==
    [](AfterPrimaryFailure /\ NeverAfterPrimaryAnswer)

\* C25 amended: on a cache miss the secondary source is queried only when the
\* network has no primary identifier or right after a request to the primary
\* source failed (exception or non-200); a successful primary answer never
\* starts the secondary query, but one that was above the ceiling does not
\* keep a later failed retry of the same request from falling back.
C25_SecondaryOnlyAfterPrimaryFailure ==
    []AfterPrimaryFailure /\ [][AnswerDoesNotStartQuery]_vars

\* the secondary source is queried for a Scroll request after Rabby answered
\* above the ceiling and then failed on the retry
C25_Witness ==
    /\ stack # <<>>
    /\ SecondaryQueried(Head(stack))
    /\ Head(stack).network_name = "Scroll"
    /\ Head(stack).primary = "500"
    /\ Head(stack).answered

\* the call on top is about to query a price source for a Scroll quote
ScrollQueryPending ==
    /\ stack # <<>>
    /\ Head(stack).network_name = "Scroll"
    /\ Head(stack).at = "request"

\* the last return of suggest_gas_fees was an ETH quote within the ETH ceiling
EthQuoteInHand ==
    /\ ret.network_name = "ETH"
    /\ ret.gas_price.net = "ETH"
    /\ HasCeiling("ETH") => ~AboveCeiling("ETH", ret.gas_price.price)

\* every query for a Scroll price is made with an ETH lookup behind it in the
\* same pass, which returned a quote within the ETH ceiling
EthLookupBeforeQuery ==
    ScrollQueryPending => (Head(stack).eth_checked /\ EthQuoteInHand)

\* a Scroll quote fetched from a source is returned by a pass that made the
\* ETH lookup
FreshScrollAfterEthLookup ==
    (/\ stack # <<>>
     /\ Head(stack).network_name = "Scroll"
     /\ stack' = Tail(stack)
     /\ ret'.via \in {"rabby", "metamask"}) => Head(stack).eth_checked

\* C31: on a cache miss for a Scroll quote, an ETH quote within the ETH
\* ceiling is obtained (from a source or fresh from the cache) before each
\* query for a Scroll price, so a freshly fetched Scroll quote is returned
\* only by a pass of the loop that looked the ETH fee up.
C31_EthLookupBeforeEachScrollQuery ==
    []EthLookupBeforeQuery /\ [][FreshScrollAfterEthLookup]_vars

\* what suggest_gas_fees returned last is a fee record of one of the two
\* shapes, with a price, and the workflow's `if not gas_price` is false for it
ReturnsFeeRecord ==
    ret # NoReturn =>
        /\ ~NoQuoteReturned(ret.gas_price)
        /\ Keys(ret.gas_price) \in {{"gasPrice"},
                                     {"maxFeePerGas", "maxPriorityFeePerGas"}}
        /\ ret.gas_price.price \in Prices
        /\ ret.gas_price.source \in {"rabby", "metamask"}

\* a call on the fallback path returns only with a quote MetaMask answered
\* now; after a request that failed it is still there, asleep
FallbackReturnsOnlyQuote ==
    (/\ stack # <<>>
     /\ Head(stack).fn = "metamask"
     /\ Head(stack).at = "request")
    => \/ /\ stack' = Tail(stack)
          /\ ret'.via = "metamask"
          /\ ret'.gas_price.source = "metamask"
          /\ ~NoQuoteReturned(ret'.gas_price)
       \/ /\ Len(stack') = Len(stack)
          /\ Head(stack').at = "sleep"
          /\ ret' = ret

\* C32: every return of suggest_gas_fees is a non-empty fee record, either
\* {gasPrice} or {maxFeePerGas, maxPriorityFeePerGas}, so `if not gas_price`
\* in the workflow is never true; a call whose two sources both fail does
\* not return, it sleeps and asks again.
C32_AlwaysReturnsFeeRecord ==
    []ReturnsFeeRecord /\ [][FallbackReturnsOnlyQuote]_vars

\* the nested ETH lookup returned a legacy gasPrice record; then Rabby and
\* MetaMask both failed for the Scroll request, which is asleep, not returned
C32_Witness ==
    /\ Keys(ret.gas_price) = {"gasPrice"}
    /\ stack # <<>>
    /\ Head(stack).fn = "metamask"
    /\ Head(stack).network_name = "Scroll"
    /\ Head(stack).at = "sleep"
    /\ Head(stack).primary = "exception"
    /\ Head(stack).response = "exception"

\* ------------------------------------------------------------------------
\* Claims about register_and_claim and get_eligible_badges
\* ------------------------------------------------------------------------
Ended == fpc \in {"returned", "raised"}

Returned(s) == fpc = "returned" /\ status = s

Sent(kind) == \E k \in 1..Len(txs) : txs[k].kind = kind

\* the badges whose claim transaction was sent, in the order of sending
ClaimsSent ==
    LET F[k \in 0..Len(txs)] ==
            IF k = 0 THEN <<>>
            ELSE IF txs[k].kind = "claim" THEN Append(F[k - 1], txs[k].badge)
            ELSE F[k - 1]
    IN  F[Len(txs)]

\* get_eligible_badges has returned its list and the workflow went on
ListReturned == visited \cap {"gas", "origins"} # {} /\ "badge_check" \in visited

\* C6: every call of register_and_claim ends by returning SUCCESS,
\* INSUFFICIENT_BALANCE or FAILED; no error leaves it as an exception.
C6_EveryCallReturnsStatus ==
    Ended => (fpc = "returned" /\ status \in TransactionStatus)

\* C7: once estimate_gas raised 'insufficient funds', the call has returned
\* INSUFFICIENT_BALANCE, the transaction that was being estimated was not
\* sent and no transaction was sent after it.
C7_InsufficientFundsSendsNothing ==
    insufficient_at >= 0 =>
        /\ Returned("INSUFFICIENT_BALANCE")
        /\ Len(txs) = insufficient_at
        /\ \A k \in 1..Len(txs) :
              <<txs[k].kind, txs[k].badge>> # <<txn.kind, txn.badge>>

\* the attestation could not be paid for after a mint or a claim went through
C7_Witness ==
    /\ insufficient_at >= 1
    /\ txn.kind = "attest"
    /\ Returned("INSUFFICIENT_BALANCE")

\* C8: SUCCESS is returned only if the profile is registered (found minted,
\* or minted by this call with a status-1 receipt), every collected badge's
\* claim was sent, and every transaction sent has a status-1 receipt; a
\* transaction without receipt or with another status makes the call return
\* FAILED.
C8_SuccessOnlyAfterAllStages ==
    /\ Returned("SUCCESS") =>
          /\ profile = "minted"
             \/ \E k \in 1..Len(txs) : txs[k].kind = "mint" /\ txs[k].receipt = "1"
          /\ \A k \in 1..Len(txs) : txs[k].receipt = "1"
          /\ claim_badges => ClaimsSent = eligible_badges
    /\ (\E k \in 1..Len(txs) : txs[k].receipt \in {"0", "None"}) =>
          Returned("FAILED")

\* a call that minted, claimed and attested
C8_Witness ==
    /\ Returned("SUCCESS")
    /\ Len(txs) >= 3
    /\ txs[1].kind = "mint"
    /\ txs[Len(txs)].kind = "attest"

\* C9 as stated: with the profile already minted the call goes on to the
\* badge evaluation.
C9_MintedGoesToBadges ==
    profile = "minted" => "badgelist" \in visited

\* C9 amended: with the profile already minted the call sends no mint
\* transaction and enters neither the username nor the invite stage; it goes
\* straight to the claim_badges test: to the badge evaluation if claim_badges
\* is set, and otherwise it returns SUCCESS at once.
C9_MintedSkipsMint ==
    profile = "minted" =>
        /\ visited \cap {"username", "invite"} = {}
        /\ ~Sent("mint")
        /\ tx_kind # "mint"
        /\ IF claim_badges
           THEN "badgelist" \in visited
           ELSE Returned("SUCCESS") /\ txs = <<>> /\ visited = {"profile"}

\* a call for a registered profile that went on to claim a badge
C9_Witness ==
    /\ profile = "minted"
    /\ Returned("SUCCESS")
    /\ Sent("claim")

\* C10: a badge whose check endpoint could not be reached is left out of the
\* list and its evaluation ends without an exception; the badge after it is
\* evaluated next, or, if it was the last one, the list is returned and the
\* workflow goes on; every badge before the current one has been evaluated.
C10_OutageSkipsOnlyThatBadge ==
    /\ \A k \in outages :
          /\ k \notin ToSet(eligible_badges)
          /\ k <= Len(evals)
          /\ evals[k] = "outage"
          /\ k = Len(evals) =>
                IF k < nbadges
                THEN fpc = "badge_check" /\ bidx = k + 1
                ELSE ListReturned
    /\ fpc = "badge_check" => Len(evals) = bidx - 1
    /\ (Len(evals) = nbadges /\ nbadges > 0
          /\ \A k \in 1..Len(evals) : evals[k] # "raised") =>
          /\ ListReturned
          /\ ToSet(eligible_badges) =
                {k \in 1..nbadges : evals[k] = "collected"}

\* the second of three badges had an outage, the other two were collected
\* and the call ended in SUCCESS
C10_Witness ==
    /\ outages = {2}
    /\ eligible_badges = <<1, 3>>
    /\ Returned("SUCCESS")

\* the claim transactions sent so far are those of the first collected
\* badges, in collection order; a transaction is sent only after the one
\* before it has a status-1 receipt; a claim without receipt or with another
\* status is the last transaction of the call, which has returned a status
\* other than SUCCESS
ClaimsInOrder ==
    /\ Len(ClaimsSent) <= Len(eligible_badges)
    /\ ClaimsSent = SubSeq(eligible_badges, 1, Len(ClaimsSent))
    /\ \A k \in 1..Len(txs) :
          /\ k < Len(txs) => txs[k].receipt = "1"
          /\ (txs[k].kind = "claim" /\ txs[k].receipt \in {"0", "None"}) =>
                /\ fpc = "returned"
                /\ status \in TransactionStatus \ {"SUCCESS"}

\* an estimation error for a claim returns a status other than SUCCESS and
\* sends nothing; a call that has returned sends nothing more
FailedClaimEnds ==
    /\ (fpc = "estimate" /\ tx_kind = "claim" /\ fpc' # "send") =>
          /\ fpc' = "returned"
          /\ status' \in TransactionStatus \ {"SUCCESS"}
          /\ txs' = txs
    /\ (fpc = "returned" /\ inv' = inv) => (txs' = txs /\ fpc' = "returned")

\* C11: the claims of the collected badges are submitted one after another
\* in collection order, and the first claim that fails (estimation error, no
\* receipt, receipt status other than 1) ends the call with a status other
\* than SUCCESS: no later claim and no origins attestation is sent in it.
C11_FirstFailedClaimEndsCall == []ClaimsInOrder /\ [][FailedClaimEnds]_vars

\* the second of three collected badges failed with a status-0 receipt
C11_Witness ==
    /\ Len(eligible_badges) = 3
    /\ ClaimsSent = SubSeq(eligible_badges, 1, 2)
    /\ txs[Len(txs)].kind = "claim"
    /\ txs[Len(txs)].receipt = "0"
    /\ Returned("FAILED")

\* the transactions of this call that have no status-1 receipt
Unresolved == {k \in 1..Len(txs) : txs[k].receipt # "1"}

\* the call is waiting for the receipt of the transaction it sent last
AwaitingReceipt == fpc \in {"wait", "receipt_prompt"}

\* only the last transaction of the call can be without a status-1 receipt,
\* and while the call goes on it is, exactly when the call waits for it
OneUnresolved ==
    /\ Cardinality(Unresolved) <= 1
    /\ Unresolved \subseteq {Len(txs)}
    /\ AwaitingReceipt => (txs # <<>> /\ txs[Len(txs)].receipt = "pending")
    /\ (~Ended /\ ~AwaitingReceipt) => Unresolved = {}

\* a transaction is submitted by the send step only, when every transaction
\* of the call before it has a status-1 receipt
SubmitsAfterReceipt ==
    (inv' = inv /\ Len(txs') > Len(txs)) =>
        /\ fpc = "send"
        /\ Len(txs') = Len(txs) + 1
        /\ \A k \in 1..Len(txs) : txs'[k] = txs[k] /\ txs[k].receipt = "1"

\* C28: in one call of register_and_claim at most one transaction is
\* unresolved at any time: the next transaction is built and submitted only
\* after the one before it has a receipt with status 1.
C28_OneUnresolvedTransaction == []OneUnresolved /\ [][SubmitsAfterReceipt]_vars

\* the third transaction of a call is waited for, the two before it have
\* status-1 receipts
C28_Witness ==
    /\ AwaitingReceipt
    /\ Len(txs) = 3
    /\ Unresolved = {3}
    /\ timed_out

\* C29: every claim transaction of a call carries the payload the claim
\* endpoint returned to that same call, and every collected badge has a
\* payload, that of this call: never one that an earlier call left on a
\* built-in badge object.
C29_ClaimCarriesOwnPayload ==
    /\ \A k \in 1..Len(eligible_badges) :
          /\ mint_info[eligible_badges[k]] # 0
          /\ mint_info[eligible_badges[k]] = inv
    /\ \A k \in 1..Len(txs) :
          txs[k].kind = "claim" => (txs[k].data # 0 /\ txs[k].data = inv)
    /\ txn.kind = "claim" => txn.data = inv

\* the built-in badge object still holds the payload of the first call,
\* the second call did not collect it and sent a claim with its own payload
C29_Witness ==
    /\ inv = 2
    /\ \E b \in CUSTOM_BADGES :
          mint_info[b] = 1 /\ b \notin ToSet(eligible_badges)
    /\ \E k \in 1..Len(txs) : txs[k].kind = "claim" /\ txs[k].data = 2

\* ------------------------------------------------------------------------
\* Claims about read_accounts and main
\* ------------------------------------------------------------------------
Markers == {"random", "endrandom"}

\* read_accounts has returned to main()
Loaded == lpc \in {"returned", "done"}

\* the sheet passes the column comparison and every row passes validation
ValidSheet == columns = "ok" /\ \A k \in 1..Len(sheet) : sheet[k] # "invalid"

\* 'random' rows minus 'endrandom' rows among the first k rows
Depth(k) ==
    Cardinality({j \in 1..k : sheet[j] = "random"})
        - Cardinality({j \in 1..k : sheet[j] = "endrandom"})

\* every 'random' is closed by an 'endrandom' before the next 'random', and
\* every 'endrandom' closes a 'random'
WellBracketed ==
    /\ \A k \in 1..Len(sheet) : Depth(k) \in {0, 1}
    /\ Depth(Len(sheet)) = 0

AccountRows == {k \in 1..Len(sheet) : sheet[k] = "account"}

\* the number of marker rows above row r: even outside the blocks, odd inside
MarkersAbove(r) == Cardinality({j \in 1..r : sheet[j] \in Markers})

InBlock(r) == MarkersAbove(r) % 2 = 1

\* C13: for a valid, well-bracketed sheet read_accounts returns a list that
\* holds every non-marker row once and no marker row; the rows of one block
\* stay together at the place of the block, in some order, and every row
\* outside the blocks keeps its place relative to all other rows.
C13_BlocksPermutedInPlace ==
    (Loaded /\ ValidSheet /\ WellBracketed) =>
        /\ read_result.list
        /\ LET a == read_result.accounts IN
            /\ Len(a) = Cardinality(AccountRows)
            /\ ToSet(a) = AccountRows
            /\ \A x, y \in 1..Len(a) :
                  x < y =>
                    /\ MarkersAbove(a[x]) <= MarkersAbove(a[y])
                    /\ (~InBlock(a[x]) \/ ~InBlock(a[y])) => a[x] < a[y]

\* a block of two rows came back swapped, the row after it kept its place and
\* the empty block after that row was removed
C13_Witness ==
    /\ Loaded
    /\ sheet = <<"random", "account", "account", "endrandom", "account",
                 "random", "endrandom">>
    /\ read_result = AList(<<3, 2, 5>>)

\* C14: a sheet whose markers are not well-bracketed (a 'random' never
\* closed, a 'random' before the previous one is closed, an 'endrandom'
\* without an open 'random') makes read_accounts return no list.
C14_UnmatchedBracketFails ==
    (Loaded /\ ~WellBracketed) => ~read_result.list

\* an otherwise valid sheet with a stray 'endrandom' after a closed block
C14_Witness ==
    /\ Loaded
    /\ ValidSheet
    /\ sheet = <<"random", "account", "endrandom", "account", "endrandom">>
    /\ ~read_result.list

\* C15: if a row fails validation or a column is unknown or missing,
\* read_accounts returns no list and main() processes nothing: run_accounts
\* is not called, last_state.json is not written and register_and_claim is
\* not called, whichever rows came before the invalid one.
C15_InvalidRowLoadsNothing ==
    (Loaded /\ ~ValidSheet) =>
        /\ ~read_result.list
        /\ ~run_called
        /\ pc = "idle"
        /\ ~file.exists
        /\ inv = 0

\* main() has finished for a sheet whose last row is invalid after valid ones
C15_Witness ==
    /\ lpc = "done"
    /\ columns = "ok"
    /\ sheet = <<"account", "account", "invalid">>
    /\ ~run_called

\* ------------------------------------------------------------------------
\* Claims about utils.wait_for_transaction_receipt
\* ------------------------------------------------------------------------
\* the call made with return_on_fail false has returned None
GaveUp ==
    /\ receipt_wait.at = "returned"
    /\ receipt_wait.result = "None"
    /\ ~receipt_wait.return_on_fail

\* None is returned only when the timeout has passed, the operator was
\* prompted and the poll after the prompt raised
GaveUpOnlyAfterPrompt ==
    GaveUp =>
        /\ receipt_wait.elapsed >= Timeout
        /\ receipt_wait.prompted
        /\ receipt_wait.after_prompt
        /\ receipt_wait.error

\* a poll that raises an Exception before the timeout has passed is followed
\* by the sleep, and the sleep by the next poll
ErrorBeforeTimeoutPollsAgain ==
    /\ (/\ receipt_wait.at = "poll"
        /\ receipt_wait'.at # "raised"
        /\ receipt_wait'.error
        /\ receipt_wait'.elapsed < Timeout)
       => receipt_wait'.at = "sleep"
    /\ (receipt_wait.at = "sleep" /\ receipt_wait'.at # "raised")
       => receipt_wait'.at = "poll"

\* C16: wait_for_transaction_receipt with return_on_fail false returns no
\* receipt only after the timeout has elapsed, the operator was prompted and
\* the poll made after the prompt failed too; before the timeout has elapsed
\* a polling error only leads to another poll.
C16_GivesUpOnlyAfterPrompt ==
    []GaveUpOnlyAfterPrompt /\ [][ErrorBeforeTimeoutPollsAgain]_vars

\* the wait was given up after the prompt
C16_Witness == GaveUp /\ receipt_wait.prompted

\* ------------------------------------------------------------------------
\* Claims about utils.estimate_gas
\* ------------------------------------------------------------------------
\* C12: for every raw estimate r, estimate_gas returns ceil(r * 1.25), the
\* smallest integer not below 5r/4.
C12_EstimateIsCeil ==
    gas_limit # -1 =>
        /\ 4 * gas_limit >= 5 * raw_estimate
        /\ 4 * (gas_limit - 1) < 5 * raw_estimate

C18_InterruptNeverLeavesCall == status # "INTERRUPTED"

\* ------------------------------------------------------------------------
\* Claims about run_accounts
\* ------------------------------------------------------------------------
\* the process is working on bot_account (lines 577-649)
Processing ==
    pc \in {"test_proxy", "proxy_sleep", "proxy_prompt", "while", "attempt", "random_sleep",
            "for_else", "fail_prompt"}

Count(s, x) == Cardinality({k \in 1..Len(s) : s[k] = x})

SameSet(s, t) == ToSet(s) = ToSet(t)

SameMultiset(s, t) == \A x \in ToSet(s) \cup ToSet(t) : Count(s, x) = Count(t, x)

ResumeOffered == pc = "continue_prompt" \/ prompted

\* C1: when every attempt of a round has failed and auto_skip is set, the
\* next step of run_accounts leaves the account (the for loop takes the next
\* row) instead of prompting or calling register_and_claim again.
C1_AutoSkipLeavesAccount ==
    [][(pc = "for_else" /\ bot_account.auto_skip) => pc' = "for"]_vars

\* C2: while an account is being processed, last_state.json names that
\* account as the one to resume from.
C2_CheckpointNamesCurrentAccount ==
    Processing => file.account_hash = hash(bot_account.private_key)

\* C4: the resume prompt is issued only if last_state.json existed and its
\* order has the same set of hashes as the batch; if it did not, there is no
\* prompt and the for loop iterates the whole batch in batch order.
C4_PromptOnlyOnMatch ==
    /\ ResumeOffered =>
          last_state.exists /\ SameSet(last_state.order, hashes_of(batch))
    /\ (pc # "idle" /\ ~(last_state.exists
                         /\ SameSet(last_state.order, hashes_of(batch)))) =>
          /\ ~ResumeOffered
          /\ bot_accounts = batch
          /\ processed = hashes_of(SubSeq(batch, 1, pos))

\* a run that found a checkpoint of another batch and went through the whole
\* new batch without a prompt
C4_Witness ==
    /\ pc = "for"
    /\ last_state.exists
    /\ ~SameSet(last_state.order, hashes_of(batch))
    /\ ~prompted
    /\ Len(batch) = 2
    /\ pos = 2
    /\ processed = hashes_of(batch)

\* C5 as stated: whenever last_state.json exists and the set of hashes in its
\* order equals the set of hashes of the batch, the resume is offered.
C5_OfferedOnSetMatch ==
    (pc # "idle" /\ last_state.exists
       /\ SameSet(last_state.order, hashes_of(batch))) => ResumeOffered

\* C5 amended: whenever last_state.json (as run_accounts wrote it) exists and
\* its order holds the same hashes as the batch with the same multiplicities,
\* the resume is offered.
C5_OfferedOnMultisetMatch ==
    (pc # "idle" /\ last_state.exists
       /\ SameMultiset(last_state.order, hashes_of(batch))) => ResumeOffered

\* the resume was offered for a batch whose rows come in another order than
\* the checkpoint recorded
C5_Witness ==
    /\ prompted
    /\ last_state.exists
    /\ last_state.order # hashes_of(batch)
    /\ SameMultiset(last_state.order, hashes_of(batch))

\* the attempts a round may make: max(1, max_retries)
Limit == Max(1, bot_account.max_retries)

PersistedTail ==
    LET order == last_state.order
        k == index(order, last_state.account_hash)
    IN  <<last_state.account_hash>> \o SubSeq(order, k + 1, Len(order))

\* the for loop of line 563 is running
InLoop == pc \notin {"idle", "continue_prompt"}

\* C22: after the operator accepted the resume, the accounts taken by the for
\* loop are the checkpointed account followed by the accounts after it in the
\* persisted order, in that order and each position once (so none of the
\* positions before it); after the operator declined, they are the rows of
\* the batch in batch order.
C22_ResumeFollowsPersistedOrder ==
    /\ (InLoop /\ continue_result = "y") =>
          /\ hashes_of(bot_accounts) = PersistedTail
          /\ processed = SubSeq(PersistedTail, 1, pos)
    /\ (InLoop /\ continue_result = "n") =>
          /\ bot_accounts = batch
          /\ processed = SubSeq(hashes_of(batch), 1, pos)

\* an accepted resume went through a batch whose rows come in another order
\* than the persisted one
C22_Witness ==
    /\ pc = "for"
    /\ continue_result = "y"
    /\ Len(batch) = 2
    /\ pos = 2
    /\ hashes_of(batch) # last_state.order
    /\ processed = last_state.order

\* the last thing the operator did was to answer exit at one of the prompts
ExitChosen == ended \in {"exit at proxy prompt", "exit at failure prompt"}

\* C23: once the operator has answered exit, at the proxy prompt or at the
\* prompt for a failed account, the run is over (no process is left) and
\* register_and_claim is not called any more.
C23_ExitEndsRun ==
    /\ [](ExitChosen => pc = "idle" /\ bot_accounts = <<>>)
    /\ [][ExitChosen => calls' = calls]_vars

\* the operator interrupted the proxy test of the first of two accounts and
\* answered exit
C23_Witness ==
    /\ ended = "exit at proxy prompt"
    /\ pc = "idle"
    /\ file.exists
    /\ Len(file.order) = 2

\* the proxy loop of lines 580-595 is running
InProxyLoop == pc \in {"test_proxy", "proxy_sleep"}

\* C24: the proxy loop does not go on for ever: a process that keeps running
\* leaves it, for the skip/exit/delete prompt if the test keeps failing,
\* without anything else having to happen.
C24_ProxyLoopIsLeft == [](InProxyLoop => <>(~InProxyLoop))

\* the checkpoint names the first entry of the order it records
NamesFirstOfOrder ==
    file.exists =>
        /\ file.order # <<>>
        /\ file.account_hash = file.order[1]
        /\ index(file.order, file.account_hash) = 1

\* the list the for loop goes through holds every account of the batch, as
\* often as the batch does
OmitsNoAccount ==
    InLoop =>
        /\ SameMultiset(hashes_of(bot_accounts), hashes_of(batch))
        /\ SameMultiset(file.order, hashes_of(batch))

\* accepting the resume writes the checkpoint that was read
AcceptRewritesSame ==
    (pc = "continue_prompt" /\ continue_result' = "y") =>
        /\ file'.order = last_state.order
        /\ file'.account_hash = last_state.account_hash
        /\ file' = file

\* C26: the account identifier of every checkpoint run_accounts writes is the
\* first entry of the order recorded with it; so, starting from no
\* checkpoint, however often the run is resumed, the list that is processed
\* omits no account of the batch, and accepting a resume rewrites the
\* checkpoint with the same order and the same identifier.
C26_CheckpointNamesFirstOfOrder ==
    /\ [](NamesFirstOfOrder /\ OmitsNoAccount)
    /\ [][AcceptRewritesSame]_vars

\* a resume of a two-account batch listed in another order was accepted and
\* the checkpoint still holds the order and the identifier that were read
C26_Witness ==
    /\ InLoop
    /\ continue_result = "y"
    /\ Len(batch) = 2
    /\ last_state.order # hashes_of(batch)
    /\ file = last_state
    /\ hashes_of(bot_accounts) = last_state.order

\* where run_accounts goes after an attempt that did not succeed
AfterFailedAttempt ==
    IF i < bot_account.max_retries - 1 THEN "random_sleep"
    ELSE IF i + 1 < Limit THEN "attempt"
    ELSE "for_else"

\* register_and_claim returns r to run_accounts
AttemptReturns(r) == pc = "attempt" /\ calls' = calls + 1 /\ result' = r

\* an attempt that returned FAILED or INSUFFICIENT_BALANCE is handled by the
\* same rule, in which the status does not occur
FailureHandling ==
    /\ \A r \in {"FAILED", "INSUFFICIENT_BALANCE"} :
          AttemptReturns(r) =>
              /\ pc' = AfterFailedAttempt
              /\ ~success'
              /\ sleeps' = sleeps
              /\ <<pos', bot_account', rounds', file'>>
                   = <<pos, bot_account, rounds, file>>
    /\ pc = "random_sleep" =>
          pc' \in {"attempt", "for_else"} /\ sleeps' = sleeps + 1 /\ result' = result
    /\ pc = "for_else" =>
          /\ pc' = (IF bot_account.auto_skip THEN "while" ELSE "fail_prompt")
          /\ result' = result

\* C27: run_accounts treats INSUFFICIENT_BALANCE as it treats FAILED: the
\* same sleep between attempts, the same further attempts up to the limit
\* of the round, the same auto-skip or prompt after the last one.
C27_InsufficientBalanceHandledAsFailed == [][FailureHandling]_vars

\* two attempts returned INSUFFICIENT_BALANCE, with a sleep between them, and
\* the operator is asked what to do
C27_Witness ==
    /\ pc = "fail_prompt"
    /\ result = "INSUFFICIENT_BALANCE"
    /\ calls = 2
    /\ sleeps = 1

Init == InitRun /\ InitFlow /\ InitGas /\ InitEstimate /\ InitLoad /\ InitWait

Next == NextRun

\* the run orchestrator
Spec == Init /\ [][Next]_vars

\* the run orchestrator of a process that is never suspended: as long as it
\* can take a step it takes one
SpecRunning == Init /\ [][Next]_vars /\ WF_vars(Next)

\* the reward workflow
SpecFlow == Init /\ [][NextFlow]_vars

\* the gas oracle
SpecGas == Init /\ [][NextGas]_vars

\* utils.estimate_gas on every raw estimate up to MaxRawEstimate
InitEstimateInputs ==
    /\ InitRun /\ InitFlow /\ InitGas /\ InitLoad /\ InitWait
    /\ raw_estimate \in RawEstimates
    /\ gas_limit = -1

SpecEstimate == InitEstimateInputs /\ [][NextEstimate]_vars

\* main() up to the call of run_accounts
SpecLoad == Init /\ [][NextLoad]_vars

\* one call of utils.wait_for_transaction_receipt
SpecWait == Init /\ [][NextWait]_vars

====
